---- MODULE Spec2Model ----
(***************************************************************************)
(* Model of Samples/download_testset.py: the catalog lister, the file      *)
(* fetcher, the summary writer and the main() entry point.                 *)
(*                                                                         *)
(* File names are sequences of one-character strings, so that endswith,    *)
(* Path(...).name, Path(...).parent and sorted() are computed and not      *)
(* looked up.  A local path is the sequence of its components relative to  *)
(* the output directory; << >> is the output directory itself.             *)
(*                                                                         *)
(* Environment: the calls the program wraps in try/except may fail         *)
(* (list_repo_files, hf_hub_download, rename, rmdir).  mkdir, write_text   *)
(* and the stat of a file the process has just placed are taken to         *)
(* succeed; the download cache the library keeps is not part of the model. *)
(***************************************************************************)
EXTENDS Integers, Sequences, FiniteSets, TLC

VARIABLES
    listing,          \* what list_repo_files returns (environment)
    argCount,         \* args.count
    argList,          \* args.list
    pc,               \* position of main()
    available_files,  \* main: available_files
    todo,             \* main: available_files[:count]
    idx,              \* main: position of the for loop in todo
    downloaded,       \* main: downloaded / create_readme: downloaded_files
    dirs,             \* directories that exist at or under the output directory
    files,            \* regular files under the output directory: path -> size
    readme,           \* content of README.md, NoReadme when it does not exist
    exitStatus,       \* Running, or the exit status of the process
    stdout,           \* the diagnostics the properties refer to
    dirs0,            \* history: the directories that existed at the start
    attempts,         \* history: the download_ply_file calls and their results
    last,             \* history: what the last download_ply_file call did
    listOK,           \* history: list_repo_files returned without raising
    calls             \* history: number of create_readme calls

vars == <<listing, argCount, argList, pc, available_files, todo, idx,
          downloaded, dirs, files, readme, exitStatus, stdout, dirs0,
          attempts, last, listOK, calls>>

--------------------------------------------------------------------------
(* Bounds *)

MaxListing == 3
MaxCount == 4
MaxNegCount == 2
MaxCalls == 3
MaxArgs == 2

--------------------------------------------------------------------------
(* Characters and strings *)

\* ord(): the code point of a character
Ord(ch) ==
    CASE ch = "." -> 46  [] ch = "/" -> 47
      [] ch = "A" -> 65  [] ch = "D" -> 68  [] ch = "E" -> 69
      [] ch = "M" -> 77  [] ch = "R" -> 82
      [] ch = "a" -> 97  [] ch = "b" -> 98  [] ch = "c" -> 99
      [] ch = "d" -> 100 [] ch = "l" -> 108 [] ch = "m" -> 109
      [] ch = "p" -> 112 [] ch = "q" -> 113
      [] ch = "x" -> 120 [] ch = "y" -> 121

Min(a, b) == IF a <= b THEN a ELSE b
Max(a, b) == IF a >= b THEN a ELSE b

PlyExt == <<".", "p", "l", "y">>
ReadmeName == <<"R", "E", "A", "D", "M", "E", ".", "m", "d">>

\* str.endswith
EndsWith(s, suf) ==
    /\ Len(s) >= Len(suf)
    /\ SubSeq(s, Len(s) - Len(suf) + 1, Len(s)) = suf

\* str.__lt__: comparison by code point, a proper prefix is smaller
RECURSIVE StrLess(_, _)
StrLess(s, t) ==
    IF t = << >> THEN FALSE
    ELSE IF s = << >> THEN TRUE
    ELSE IF Ord(Head(s)) # Ord(Head(t)) THEN Ord(Head(s)) < Ord(Head(t))
    ELSE StrLess(Tail(s), Tail(t))

\* the components of a name, split at "/"
RECURSIVE SplitPath(_, _)
SplitPath(s, cur) ==
    IF s = << >> THEN <<cur>>
    ELSE IF Head(s) = "/" THEN <<cur>> \o SplitPath(Tail(s), << >>)
    ELSE SplitPath(Tail(s), Append(cur, Head(s)))

\* Path(local_dir) / filename, relative to the output directory
LocalPath(filename) == SplitPath(filename, << >>)

\* Path.name and Path.parent
PathName(p) == p[Len(p)]
PathParent(p) == SubSeq(p, 1, Len(p) - 1)

\* output_dir / Path(x).name
TargetFile(p) == <<PathName(p)>>

\* len(str(n)) for n >= 0
RECURSIVE Digits(_)
Digits(n) == IF n < 10 THEN 1 ELSE 1 + Digits(n \div 10)

--------------------------------------------------------------------------
(* The remote repository (environment) *)

F_a == <<"a", ".", "p", "l", "y">>
F_pa == <<"p", "/", "a", ".", "p", "l", "y">>
F_pb == <<"p", "/", "b", ".", "p", "l", "y">>
F_pqc == <<"p", "/", "q", "/", "c", ".", "p", "l", "y">>
F_dx == <<"d", ".", "p", "l", "y", "x">>

RemoteFiles == {F_a, F_pa, F_pb, F_pqc, F_dx, ReadmeName}

\* size in bytes of each remote file
RemoteSize(f) ==
    CASE f = F_a -> 1048576
      [] f = F_pa -> 2621440
      [] f = F_pb -> 3276800
      [] f = F_pqc -> 524288
      [] OTHER -> 5243

\* sequences without repetition over S, of length at most n
DistinctSeqs(S, n) ==
    UNION {{q \in [1..k -> S] : \A i, j \in 1..k : i # j => q[i] # q[j]} :
           k \in 0..n}

Range(s) == {s[i] : i \in 1..Len(s)}

--------------------------------------------------------------------------
(* list_available_scenes *)

\* [f for f in all_files if f.endswith('.ply')]
RECURSIVE PlyFiles(_)
PlyFiles(all_files) ==
    IF all_files = << >> THEN << >>
    ELSE IF EndsWith(Head(all_files), PlyExt)
         THEN <<Head(all_files)>> \o PlyFiles(Tail(all_files))
         ELSE PlyFiles(Tail(all_files))

\* insertion of x into the ascending sequence s, after its equals
RECURSIVE Insert(_, _)
Insert(x, s) ==
    IF s = << >> THEN <<x>>
    ELSE IF StrLess(x, Head(s)) THEN <<x>> \o s
    ELSE <<Head(s)>> \o Insert(x, Tail(s))

\* sorted()
RECURSIVE Sorted(_)
Sorted(s) ==
    IF s = << >> THEN << >>
    ELSE Insert(s[Len(s)], Sorted(SubSeq(s, 1, Len(s) - 1)))

\* Faulty variant of ListAvailableScenes: the filtered names are not sorted
ListAvailableScenes_Unsorted(all_files, ok) ==
    IF ok THEN PlyFiles(all_files) ELSE << >>

\* the value list_available_scenes returns; ok = FALSE: list_repo_files raised
ListAvailableScenes(all_files, ok) ==
    IF ok THEN Sorted(PlyFiles(all_files)) ELSE << >>

--------------------------------------------------------------------------
(* The local file system under the output directory *)

OutDir == << >>
NoFiles == [p \in {} |-> 0]

Prefixes(p) == {SubSeq(p, 1, k) : k \in 0..Len(p)}

IsChildOf(p, d) == Len(p) = Len(d) + 1 /\ SubSeq(p, 1, Len(d)) = d

DirEmpty(fs, ds, d) == \A p \in (DOMAIN fs) \cup ds : ~IsChildOf(p, d)

WriteFile(fs, p, size) ==
    [q \in (DOMAIN fs) \cup {p} |-> IF q = p THEN size ELSE fs[q]]

RemoveFile(fs, p) == [q \in (DOMAIN fs) \ {p} |-> fs[q]]

\* files directly in the output directory
RootFiles(fs) == {p \in DOMAIN fs : Len(p) = 1}

--------------------------------------------------------------------------
(* download_ply_file *)

\* The outcome of download_ply_file(REPO_ID, filename, output_dir) on the
\* file system (fs, ds).  hfOK: hf_hub_download returned; renameOK: rename
\* did not raise; rmdirOK: nothing but a non-empty directory stops rmdir.
DownloadPlyFile(fs, ds, filename, hfOK, renameOK, rmdirOK) ==
    LET downloaded_file == LocalPath(filename)
        target_file == TargetFile(downloaded_file)
        parent == PathParent(downloaded_file)
        created == Prefixes(parent) \ ds
        ds1 == ds \cup Prefixes(parent)
        fs1 == WriteFile(fs, downloaded_file, RemoteSize(filename))
        fs2 == WriteFile(RemoveFile(fs1, downloaded_file), target_file,
                         fs1[downloaded_file])
        ds2 == IF rmdirOK /\ DirEmpty(fs2, ds1, parent)
               THEN ds1 \ {parent} ELSE ds1
    IN  IF ~hfOK
        THEN [ok |-> FALSE, files |-> fs, dirs |-> ds, created |-> {},
              nested |-> FALSE]
        ELSE IF downloaded_file = target_file
        THEN [ok |-> TRUE, files |-> fs1, dirs |-> ds1, created |-> created,
              nested |-> FALSE]
        ELSE IF ~renameOK
        THEN [ok |-> FALSE, files |-> fs1, dirs |-> ds1, created |-> created,
              nested |-> TRUE]
        ELSE [ok |-> TRUE, files |-> fs2, dirs |-> ds2, created |-> created,
              nested |-> TRUE]

--------------------------------------------------------------------------
(* create_readme *)

NoReadme == [n |-> -1, lines |-> << >>]
ReadmePath == <<ReadmeName>>

\* number of bytes of the template outside the substituted fields
TemplateLen == 708

\* f"{size / (1024 * 1024):.2f}", as a number of hundredths: the quotient is
\* exact in binary floating point and is rounded half to even
FormatMB(size) ==
    LET q == (size * 100) \div 1048576
        r == (size * 100) % 1048576
    IN  IF r > 524288 \/ (r = 524288 /\ q % 2 = 1) THEN q + 1 ELSE q

\* the lines of the "Files" section, from position i of downloaded_files on
RECURSIVE ReadmeLines(_, _, _)
ReadmeLines(fs, downloaded_files, i) ==
    IF i > Len(downloaded_files) THEN << >>
    ELSE LET file_path == TargetFile(LocalPath(downloaded_files[i]))
         IN  (IF file_path \in DOMAIN fs
              THEN <<[i |-> i, name |-> PathName(file_path),
                      mb |-> FormatMB(fs[file_path])]>>
              ELSE << >>)
             \o ReadmeLines(fs, downloaded_files, i + 1)

\* the document: the count of the header and the lines of the list
ReadmeContent(fs, downloaded_files) ==
    [n |-> Len(downloaded_files), lines |-> ReadmeLines(fs, downloaded_files, 1)]

RECURSIVE LinesBytes(_)
LinesBytes(lines) ==
    IF lines = << >> THEN 0
    ELSE Digits(Head(lines).i) + Len(Head(lines).name)
         + Digits(Head(lines).mb \div 100) + 3 + 11 + LinesBytes(Tail(lines))

ContentBytes(content) ==
    TemplateLen + Digits(content.n) + LinesBytes(content.lines)

\* Faulty variant of WriteText: the file is opened for appending
WriteText_Append(old, content) ==
    IF old.n < 0 THEN content
    ELSE [n |-> content.n, lines |-> old.lines \o content.lines]

\* readme_path.write_text(content): the new content of the file
WriteText(old, content) == content

\* create_readme(output_dir, downloaded_files) on the files fs
CreateReadme(fs, old, downloaded_files) ==
    LET content == WriteText(old, ReadmeContent(fs, downloaded_files))
    IN  [readme |-> content,
         files |-> WriteFile(fs, ReadmePath, ContentBytes(content))]

--------------------------------------------------------------------------
(* main *)

Running == -1
DEFAULT_COUNT == 5

\* s[:c]
PyPrefix(s, c) ==
    IF c >= 0 THEN SubSeq(s, 1, Min(c, Len(s)))
    ELSE SubSeq(s, 1, Max(Len(s) + c, 0))

\* Faulty variant of FetchList: the requested count is ignored
FetchList_Unclamped(av, args_count) == av

\* available_files[:count] with count = min(args.count, len(available_files))
FetchList(av, args_count) == PyPrefix(av, Min(args_count, Len(av)))

\* Faulty variant of MainBranch: the catalog is not tested for emptiness
MainBranch_NoEmptyCheck(av, list) ==
    IF list THEN "exit_list" ELSE "prepare"

\* Faulty variant of MainBranch: the --list flag is not honoured
MainBranch_IgnoreList(av, list) ==
    IF av = << >> THEN "exit_nofiles" ELSE "prepare"

\* the branch main takes once the catalog is known
MainBranch(av, list) ==
    IF av = << >> THEN "exit_nofiles"
    ELSE IF list THEN "exit_list"
    ELSE "prepare"

\* Faulty variant of LoopOutcome: the summary is written unconditionally
LoopOutcome_AlwaysSummary(dl) == "summary"

\* the branch main takes after the loop
LoopOutcome(dl) == IF dl # << >> THEN "summary" ELSE "fail"

NoOutput == [noPly |-> FALSE, catalog |-> << >>, warnNone |-> FALSE]
NoCall == [filename |-> << >>, ok |-> FALSE, nested |-> FALSE,
           created |-> {}, hfOK |-> FALSE, renameOK |-> FALSE,
           rmdirOK |-> FALSE]

CountArgs == ((0 - MaxNegCount)..MaxCount) \cup {DEFAULT_COUNT}

Init ==
    /\ listing \in DistinctSeqs(RemoteFiles, MaxListing)
    /\ argCount \in CountArgs
    /\ argList \in BOOLEAN
    /\ pc = "start"
    /\ available_files = << >>
    /\ todo = << >>
    /\ idx = 1
    /\ downloaded = << >>
    /\ dirs \in {{}, {OutDir}}
    /\ dirs0 = dirs
    /\ files = NoFiles
    /\ readme = NoReadme
    /\ exitStatus = Running
    /\ stdout = NoOutput
    /\ attempts = << >>
    /\ last = NoCall
    /\ listOK = TRUE
    /\ calls = 0

\* available_files = list_available_scenes(REPO_ID)
ListScenes ==
    /\ pc = "start"
    /\ \E ok \in BOOLEAN :
        /\ available_files' = ListAvailableScenes(listing, ok)
        /\ listOK' = ok
    /\ pc' = "check"
    /\ UNCHANGED <<listing, dirs0, argCount, argList, todo, idx, downloaded, dirs,
                   files, readme, exitStatus, stdout, attempts, last, calls>>

\* if not available_files: print, sys.exit(1)
NoFilesExit ==
    /\ pc = "check"
    /\ MainBranch(available_files, argList) = "exit_nofiles"
    /\ stdout' = [stdout EXCEPT !.noPly = TRUE]
    /\ exitStatus' = 1
    /\ pc' = "done"
    /\ UNCHANGED <<listing, dirs0, argCount, argList, available_files, todo, idx,
                   downloaded, dirs, files, readme, attempts, last, listOK,
                   calls>>

\* if args.list: print the numbered catalog, sys.exit(0)
ListOnlyExit ==
    /\ pc = "check"
    /\ MainBranch(available_files, argList) = "exit_list"
    /\ stdout' = [stdout EXCEPT !.catalog =
                     [i \in 1..Len(available_files) |-> <<i, available_files[i]>>]]
    /\ exitStatus' = 0
    /\ pc' = "done"
    /\ UNCHANGED <<listing, dirs0, argCount, argList, available_files, todo, idx,
                   downloaded, dirs, files, readme, attempts, last, listOK,
                   calls>>

\* output_dir.mkdir(parents=True, exist_ok=True); count = min(...);
\* downloaded = []; the loop is entered over available_files[:count]
PrepareOutputDir ==
    /\ pc = "check"
    /\ MainBranch(available_files, argList) = "prepare"
    /\ dirs' = dirs \cup {OutDir}
    /\ todo' = FetchList(available_files, argCount)
    /\ idx' = 1
    /\ downloaded' = << >>
    /\ pc' = "loop"
    /\ UNCHANGED <<listing, dirs0, argCount, argList, available_files, files, readme,
                   exitStatus, stdout, attempts, last, listOK, calls>>

\* one iteration of the loop: if download_ply_file(...): downloaded.append
Download ==
    /\ pc = "loop"
    /\ idx <= Len(todo)
    /\ \E hfOK, renameOK, rmdirOK \in BOOLEAN :
        LET filename == todo[idx]
            r == DownloadPlyFile(files, dirs, filename, hfOK, renameOK, rmdirOK)
        IN  /\ files' = r.files
            /\ dirs' = r.dirs
            /\ downloaded' = IF r.ok THEN Append(downloaded, filename)
                             ELSE downloaded
            /\ attempts' = Append(attempts, [filename |-> filename, ok |-> r.ok])
            /\ last' = [filename |-> filename, ok |-> r.ok,
                        nested |-> r.nested, created |-> r.created,
                        hfOK |-> hfOK, renameOK |-> renameOK,
                        rmdirOK |-> rmdirOK]
    /\ idx' = idx + 1
    /\ UNCHANGED <<listing, dirs0, argCount, argList, pc, available_files, todo,
                   readme, exitStatus, stdout, listOK, calls>>

\* if downloaded: create_readme(output_dir, downloaded); main returns
WriteSummary ==
    /\ pc = "loop"
    /\ idx > Len(todo)
    /\ LoopOutcome(downloaded) = "summary"
    /\ LET r == CreateReadme(files, readme, downloaded)
       IN  /\ files' = r.files
           /\ readme' = r.readme
    /\ calls' = calls + 1
    /\ exitStatus' = 0
    /\ pc' = "done"
    /\ UNCHANGED <<listing, dirs0, argCount, argList, available_files, todo, idx,
                   downloaded, dirs, stdout, attempts, last, listOK>>

\* else: print the warning, sys.exit(1)
NoDownloadExit ==
    /\ pc = "loop"
    /\ idx > Len(todo)
    /\ LoopOutcome(downloaded) = "fail"
    /\ stdout' = [stdout EXCEPT !.warnNone = TRUE]
    /\ exitStatus' = 1
    /\ pc' = "done"
    /\ UNCHANGED <<listing, dirs0, argCount, argList, available_files, todo, idx,
                   downloaded, dirs, files, readme, attempts, last, listOK,
                   calls>>

Next ==
    \/ ListScenes
    \/ NoFilesExit
    \/ ListOnlyExit
    \/ PrepareOutputDir
    \/ Download
    \/ WriteSummary
    \/ NoDownloadExit

Spec == Init /\ [][Next]_vars

--------------------------------------------------------------------------
(* create_readme called on its own, repeatedly, with the same arguments *)

UnitNames == {F_a, F_pb, F_pqc, ReadmeName}
UnitSizes == {5243, 3276800}
UnitDisks ==
    UNION {[D -> UnitSizes] : D \in SUBSET {TargetFile(LocalPath(F_a)),
                                            TargetFile(LocalPath(F_pb))}}
UnitArgs == UNION {[1..k -> UnitNames] : k \in 0..MaxArgs}
OldReadme == [n |-> 0, lines |-> << >>]

InitReadme ==
    /\ downloaded \in UnitArgs
    /\ \E disk \in UnitDisks, old \in {NoReadme, OldReadme} :
        /\ readme = old
        /\ files = IF old = NoReadme THEN disk
                   ELSE WriteFile(disk, ReadmePath, ContentBytes(old))
    /\ dirs = {OutDir}
    /\ dirs0 = dirs
    /\ pc = "unit"
    /\ calls = 0
    /\ listing = << >>
    /\ argCount = DEFAULT_COUNT
    /\ argList = FALSE
    /\ available_files = << >>
    /\ todo = << >>
    /\ idx = 1
    /\ exitStatus = Running
    /\ stdout = NoOutput
    /\ attempts = << >>
    /\ last = NoCall
    /\ listOK = TRUE

\* create_readme(output_dir, downloaded_files)
CallCreateReadme ==
    /\ pc = "unit"
    /\ calls < MaxCalls
    /\ LET r == CreateReadme(files, readme, downloaded)
       IN  /\ files' = r.files
           /\ readme' = r.readme
    /\ calls' = calls + 1
    /\ UNCHANGED <<listing, dirs0, argCount, argList, pc, available_files, todo, idx,
                   downloaded, dirs, exitStatus, stdout, attempts, last,
                   listOK>>

NextReadme == CallCreateReadme

SpecReadme == InitReadme /\ [][NextReadme]_vars

--------------------------------------------------------------------------
(* Properties *)

Terminated == pc = "done"
FetchRun == ~argList /\ available_files # << >>
Successes == SelectSeq(attempts, LAMBDA a : a.ok)
AnySuccess == \E i \in 1..Len(attempts) : attempts[i].ok
AttemptNames == [i \in 1..Len(attempts) |-> attempts[i].filename]
SummaryWritten == readme # NoReadme /\ ReadmePath \in DOMAIN files
NoSummary == readme = NoReadme /\ ReadmePath \notin DOMAIN files
NothingWritten ==
    dirs = dirs0 /\ files = NoFiles /\ attempts = << >> /\ NoSummary

\* C1: a finished run without --list over a non-empty catalog has exit
\* status 0 and a written summary if and only if at least one fetch returned
\* success; with no successful fetch (count = 0 included) it has exit status 1
\* and no summary.
C1_ExitStatusIffAnySuccess ==
    (Terminated /\ FetchRun) =>
        /\ AnySuccess => (exitStatus = 0 /\ SummaryWritten)
        /\ ~AnySuccess => (exitStatus = 1 /\ NoSummary)
        /\ argCount = 0 => (attempts = << >> /\ exitStatus = 1)

C1_Witness ==
    /\ Terminated /\ FetchRun
    /\ exitStatus = 0 /\ SummaryWritten
    /\ Len(attempts) >= 2
    /\ ~attempts[1].ok /\ attempts[2].ok

\* C2: for count >= 0 the fetcher is called exactly once for each of the
\* first min(count, N) catalog entries, in catalog order, and for no other
\* entry, whatever the results of the earlier fetches.
C2_AttemptsArePrefix ==
    (FetchRun /\ argCount >= 0 /\ pc \in {"loop", "done"}) =>
        LET n == Min(argCount, Len(available_files))
        IN  /\ Len(attempts) <= n
            /\ AttemptNames = SubSeq(available_files, 1, Len(attempts))
            /\ Terminated => Len(attempts) = n

C2_Witness ==
    /\ Terminated /\ FetchRun
    /\ argCount > Len(available_files)
    /\ Len(available_files) >= 2
    /\ Len(attempts) = Len(available_files)
    /\ ~attempts[1].ok

\* C3: for every integer --count, negative ones included, the number of fetch
\* attempts never exceeds max(count, 0) and never exceeds the catalog size.
C3_AtMostCountAttempts ==
    (~argList /\ pc \in {"loop", "done"}) =>
        /\ Len(attempts) <= Max(argCount, 0)
        /\ Len(attempts) <= Len(available_files)

\* C4: with an empty catalog (no .ply file, or the listing call raised) main
\* ends with exit status 1 after the "no PLY files" diagnostic and has written
\* nothing: no directory created, no fetch, no summary; with or without --list.
C4_EmptyCatalogFails ==
    /\ (pc # "start" /\ ~listOK) => available_files = << >>
    /\ (pc # "start" /\ available_files = << >>) =>
        /\ pc \in {"check", "done"}
        /\ NothingWritten
        /\ Terminated => (exitStatus = 1 /\ stdout.noPly)

C4_Witness ==
    /\ Terminated /\ argList /\ ~listOK
    /\ \E i \in 1..Len(listing) : EndsWith(listing[i], PlyExt)
    /\ exitStatus = 1 /\ stdout.noPly
    /\ dirs = {}

\* C5 (as stated): whenever --list is set, main prints the numbered catalog
\* and ends with exit status 0, having created no directory, fetched nothing
\* and written no summary.
C5_ListAlwaysSucceeds ==
    (Terminated /\ argList) =>
        /\ exitStatus = 0
        /\ stdout.catalog =
              [i \in 1..Len(available_files) |-> <<i, available_files[i]>>]
        /\ NothingWritten

\* C5 (amended): whenever --list is set and the catalog is not empty, main
\* prints the numbered catalog and ends with exit status 0; with an empty
\* catalog it ends with exit status 1; in both cases no directory is created,
\* nothing is fetched and no summary is written.
C5_ListSucceedsOnNonEmptyCatalog ==
    argList =>
        /\ NothingWritten
        /\ (Terminated /\ available_files # << >>) =>
              /\ exitStatus = 0
              /\ stdout.catalog =
                    [i \in 1..Len(available_files) |-> <<i, available_files[i]>>]
        /\ (Terminated /\ available_files = << >>) => exitStatus = 1

C5_Witness ==
    /\ Terminated /\ argList
    /\ Len(available_files) >= 2
    /\ Len(stdout.catalog) = Len(available_files)
    /\ exitStatus = 0
    /\ dirs = {}

\* C6: after a run that ends with exit status 0 without --list, the root of
\* the output directory holds one distinct file for each entry whose fetch
\* succeeded, so as many fetched files as successful fetches, plus exactly
\* one README.md.
C6_OneRootFilePerSuccess ==
    (Terminated /\ ~argList /\ exitStatus = 0) =>
        /\ ReadmePath \in DOMAIN files
        /\ \A i \in 1..Len(Successes) :
              TargetFile(LocalPath(Successes[i].filename)) \in DOMAIN files
        /\ Cardinality(RootFiles(files) \ {ReadmePath}) = Len(Successes)

\* C7: after a successful fetch of a file the retrieval placed in a
\* subdirectory, at any depth, the file is directly under the output
\* directory and every directory the retrieval created that is now empty and
\* removable is gone; a failing rmdir does not make the fetch fail.
C7_NestedFileRelocatedAndDirsRemoved ==
    /\ (last.hfOK /\ (last.nested => last.renameOK)) => last.ok
    /\ (pc = "loop" /\ last.ok /\ last.nested) =>
        /\ TargetFile(LocalPath(last.filename)) \in DOMAIN files
        /\ LocalPath(last.filename) \notin DOMAIN files
        /\ \A d \in last.created :
              (last.rmdirOK /\ DirEmpty(files, dirs, d)) => d \notin dirs

\* the name ends in the four characters ".ply"
HasPlyExtension(f) ==
    /\ Len(f) >= 4
    /\ f[Len(f) - 3] = "." /\ f[Len(f) - 2] = "p"
    /\ f[Len(f) - 1] = "l" /\ f[Len(f)] = "y"

\* s comes strictly before t in the order of the code points
LexBefore(s, t) ==
    \E k \in 0..Min(Len(s), Len(t)) :
        /\ \A i \in 1..k : s[i] = t[i]
        /\ \/ (k = Len(s) /\ k < Len(t))
           \/ (k < Len(s) /\ k < Len(t) /\ Ord(s[k + 1]) < Ord(t[k + 1]))

\* C8: list_available_scenes returns exactly the listed names that end in
\* ".ply", in ascending lexicographic order, and the empty list when the
\* listing call raises.
C8_ListingFilteredAndSorted ==
    pc # "start" =>
        IF listOK
        THEN /\ Range(available_files) =
                   {f \in Range(listing) : HasPlyExtension(f)}
             /\ Len(available_files) =
                   Cardinality({i \in 1..Len(listing) : HasPlyExtension(listing[i])})
             /\ \A i, j \in 1..Len(available_files) :
                   i < j => LexBefore(available_files[i], available_files[j])
        ELSE available_files = << >>

C8_Witness ==
    /\ pc = "check" /\ listOK
    /\ Len(listing) >= 3
    /\ Len(available_files) = 2
    /\ LexBefore(listing[3], listing[1])
    /\ available_files = <<listing[3], listing[1]>>

\* C9: the summary of a successful run lists exactly the entries whose fetch
\* succeeded, one line each, in fetch order, each with the size of that
\* entry's own file, and the count of its header equals the number of lines.
C9_SummaryListsSuccessesWithOwnSizes ==
    (Terminated /\ ~argList /\ exitStatus = 0) =>
        /\ readme.n = Len(readme.lines)
        /\ Len(readme.lines) = Len(Successes)
        /\ \A i \in 1..Min(Len(readme.lines), Len(Successes)) :
              /\ readme.lines[i].name = PathName(LocalPath(Successes[i].filename))
              /\ readme.lines[i].mb = FormatMB(RemoteSize(Successes[i].filename))

NamesReadme(downloaded_files) ==
    \E i \in 1..Len(downloaded_files) :
        TargetFile(LocalPath(downloaded_files[i])) = ReadmePath

OthersUntouched ==
    /\ (DOMAIN files') \ {ReadmePath} = (DOMAIN files) \ {ReadmePath}
    /\ \A p \in (DOMAIN files) \ {ReadmePath} : files'[p] = files[p]

====
